---- MODULE Spec2Model ----
(***************************************************************************)
(* ModelManager lifecycle state machine (python/ai/model_manager.py) with  *)
(* the AIModel variants it drives (language_model.py, vision_model.py).    *)
(*                                                                         *)
(* Each public operation of the manager is a call made by a caller.  A     *)
(* call that delegates to the model (initialize_model, run_model) is split *)
(* at the points where control leaves the manager: the steps before the    *)
(* model's method is entered, and the step in which it returns or raises.  *)
(* Spec lets one caller act (the single-threaded use the code assumes);    *)
(* SpecConc lets NumCallers callers interleave at those points.            *)
(***************************************************************************)
EXTENDS Integers, Sequences, FiniteSets, TLC

\* ---------------------------------------------------------------- bounds
MaxTime == 2
NumCallers == 2

\* ----------------------------------------------------------------- enums
INITIALIZING == "initializing"
READY == "ready"
RUNNING == "running"
ERROR == "error"
STOPPED == "stopped"
ModelStatus == {INITIALIZING, READY, RUNNING, ERROR, STOPPED}

TEXT == "text"
IMAGE == "image"
AUDIO == "audio"
CATEGORICAL == "categorical"
ContextType == {TEXT, IMAGE, AUDIO, "numeric", CATEGORICAL, "vector", "mixed"}

LANGUAGE == "language"
VISION == "vision"
CUSTOM == "custom"
ModelType == {LANGUAGE, VISION, "multimodal", "audio", "reinforcement_learning", CUSTOM}

None == "None"

\* ---------------------------------------------------------------- inputs
\* The AIModel instances callers construct.  cls is the concrete class,
\* the other fields are the ModelInfo the constructor is given.
ModelObjects ==
    [lm  |-> [cls |-> "LanguageModel", model_id |-> "m1", model_type |-> LANGUAGE,
              supported_context_types |-> <<TEXT>>],
     lm2 |-> [cls |-> "LanguageModel", model_id |-> "m1", model_type |-> LANGUAGE,
              supported_context_types |-> <<TEXT, IMAGE>>],
     vm  |-> [cls |-> "VisionModel", model_id |-> "m2", model_type |-> VISION,
              supported_context_types |-> <<IMAGE>>],
     cm  |-> [cls |-> "AIModel", model_id |-> "m2", model_type |-> CUSTOM,
              supported_context_types |-> <<TEXT>>]]

Objs == DOMAIN ModelObjects
ModelIds == {"m1", "m2"}
InputContextTypes == {TEXT, IMAGE, AUDIO}
InputContexts == [context_id : {"c"}, context_type : InputContextTypes]
NoContext == [context_id |-> None, context_type |-> None]

Callers == 1..NumCallers
SeqCallers == {1}

\* ------------------------------------------------------------ dict model
\* A Python dict is a sequence of [key, value] entries in insertion order.
DictHas(d, k) == \E i \in 1..Len(d) : d[i].key = k

DictGet(d, k) ==
    IF DictHas(d, k) THEN (CHOOSE e \in {d[i] : i \in 1..Len(d)} : e.key = k).value
    ELSE None

DictSet(d, k, v) ==
    IF DictHas(d, k)
    THEN [i \in 1..Len(d) |-> IF d[i].key = k THEN [key |-> k, value |-> v] ELSE d[i]]
    ELSE Append(d, [key |-> k, value |-> v])

DictDel(d, k) == SelectSeq(d, LAMBDA e : e.key # k)

DictValues(d) == [i \in 1..Len(d) |-> d[i].value]

SeqToSet(s) == {s[i] : i \in 1..Len(s)}

\* ------------------------------------------------------------- AIModel
NoObj == [status |-> None, last_run_time |-> -1]

NewAIModel(st) == [status |-> st, last_run_time |-> 0]

model_id(o) == ModelObjects[o].model_id

supports_context_type_any(o, ct) == TRUE

supports_context_type(o, ct) == ct \in SeqToSet(ModelObjects[o].supported_context_types)

\* Outcomes of model.initialize(): "true", "false" (returned) or "raise".
InitializeOutcomes(o) ==
    IF ModelObjects[o].cls = "AIModel" THEN {"true", "false", "raise"}
    ELSE {"true", "false"}

\* Outcome of model.run(context): it raises, or returns the output context.
Raise == [raised |-> TRUE, context |-> NoContext]

Result(ctx) == [raised |-> FALSE, context |-> ctx]

LanguageModelRun_suffix(ctx) ==
    IF ctx.context_type # TEXT THEN {Raise}
    ELSE {Raise, Result([context_id |-> ctx.context_id \o "_result", context_type |-> TEXT])}

LanguageModelRun_nocheck(ctx) ==
    {Raise, Result([context_id |-> ctx.context_id \o "_response", context_type |-> TEXT])}

LanguageModelRun(ctx) ==
    IF ctx.context_type # TEXT THEN {Raise}
    ELSE {Raise, Result([context_id |-> ctx.context_id \o "_response", context_type |-> TEXT])}

VisionModelRun(ctx) ==
    IF ctx.context_type # IMAGE THEN {Raise}
    ELSE {Raise, Result([context_id |-> ctx.context_id \o "_result", context_type |-> CATEGORICAL])}

AIModelRun(ctx) ==
    {Raise, Result([context_id |-> ctx.context_id \o "_out", context_type |-> ctx.context_type])}

RunOutcomes(o, ctx) ==
    CASE ModelObjects[o].cls = "LanguageModel" -> LanguageModelRun(ctx)
      [] ModelObjects[o].cls = "VisionModel" -> VisionModelRun(ctx)
      [] OTHER -> AIModelRun(ctx)

\* ---------------------------------------------------------- return values
NoRet == [tag |-> "-", bool |-> FALSE, obj |-> None, infos |-> <<>>, context |-> NoContext]

RetNone == [NoRet EXCEPT !.tag = "None"]

RetBool(b) == [NoRet EXCEPT !.tag = "bool", !.bool = b]

RetModel(o) == IF o = None THEN RetNone ELSE [NoRet EXCEPT !.tag = "model", !.obj = o]

RetInfos(s) == [NoRet EXCEPT !.tag = "infos", !.infos = s]

RetContext(ctx) == [NoRet EXCEPT !.tag = "context", !.context = ctx]

RetException == [NoRet EXCEPT !.tag = "exception"]

\* ------------------------------------------------------------------ state
VARIABLES
    models,   \* ModelManager._models: dict model_id -> AIModel
    objs,     \* the AIModel instances: status (model_info.status), last_run_time
    now,      \* time.time()
    pc,       \* where each caller is
    call,     \* operation and arguments of the caller's current call
    local,    \* the call's local variable `model`, the status it read, whether
              \* the model's initialize/run was entered and how that ended
    ret,      \* what the call returned
    contexts, \* ContextRegistry._contexts: dict context_id -> ModelContext
    reg,      \* the last ContextRegistry call: arguments, result, warning logged
    drv,      \* the blockchain example's driver function in progress
    ser,      \* the last to_dict / from_dict call: its argument and its result
    runcall   \* the last model.run(context) call: the context object and the result

mgrvars == <<models, objs, now, pc, call, local, ret>>

regvars == <<contexts, reg>>

vars == <<models, objs, now, pc, call, local, ret, contexts, reg, drv, ser, runcall>>

NoCall == [op |-> None, model_id |-> None, obj |-> None, status |-> None,
           context |-> NoContext, model_type |-> None]

NoLocal == [model |-> None, seen |-> None, invoked |-> FALSE, outcome |-> None,
            overlap |-> FALSE]

\* ------------------------------------------------------- ContextRegistry
\* The ModelContext values callers register: id, type, optional model type
\* and a payload.
ContextIds == {"a", "b"}

RegContexts ==
    [context_id : ContextIds, context_type : {TEXT, IMAGE},
     model_type : {None, LANGUAGE, VISION}, data : {"d1", "d2"}]

NoRegContext == [context_id |-> None, context_type |-> None, model_type |-> None, data |-> None]

NoReg == [op |-> None, context |-> NoRegContext, context_id |-> None, context_type |-> None,
          model_type |-> None, found |-> NoRegContext, listed |-> <<>>, deleted |-> FALSE,
          warned |-> FALSE, raised |-> FALSE]

\* Lines 144-147 of register: a warning on collision, then the assignment.
RegistryWarns(d, ctx) == DictHas(d, ctx.context_id)

RegistryRegister_moveend(d, ctx) ==
    Append(DictDel(d, ctx.context_id), [key |-> ctx.context_id, value |-> ctx])

RegistryRegister_keepfirst(d, ctx) ==
    IF DictHas(d, ctx.context_id) THEN d ELSE DictSet(d, ctx.context_id, ctx)

RegistryRegister(d, ctx) == DictSet(d, ctx.context_id, ctx)

\* Line 151 of get.
RegistryGet_first(d, id) == IF d # <<>> THEN d[1].value ELSE NoRegContext

RegistryGet(d, id) ==
    IF DictHas(d, id) THEN (CHOOSE e \in {d[i] : i \in 1..Len(d)} : e.key = id).value
    ELSE NoRegContext

\* Lines 157-165 of list: each filter is applied when it is given.
RegistryList_anyfilter(d, ct, mt) ==
    SelectSeq(DictValues(d), LAMBDA x : (ct # None /\ x.context_type = ct)
                                         \/ (mt # None /\ x.model_type = mt)
                                         \/ (ct = None /\ mt = None))

RegistryList(d, ct, mt) ==
    LET results == DictValues(d)
        by_type == IF ct # None THEN SelectSeq(results, LAMBDA x : x.context_type = ct)
                   ELSE results
    IN  IF mt # None THEN SelectSeq(by_type, LAMBDA x : x.model_type = mt) ELSE by_type

\* Lines 169-172 of delete.
RegistryDelete(d, id) == IF DictHas(d, id) THEN DictDel(d, id) ELSE d

RegistryDeleteResult_always(d, id) == TRUE

RegistryDeleteResult(d, id) == DictHas(d, id)

\* --------------------------------------------------------- serialization
\* An Enum member is its class with its value; .value reads the string tag
\* and Enum(tag) looks the member up by value or raises ValueError.
EnumMember(enum, tag) == [enum |-> enum, value |-> tag]

NoneMember == [enum |-> "NoneType", value |-> None]

EnumTags(enum) ==
    CASE enum = "ContextType" -> ContextType
      [] enum = "ModelType"   -> ModelType
      [] enum = "ModelStatus" -> ModelStatus

EnumKnows(enum, tag) == tag \in EnumTags(enum)

\* Python truthiness of a tag read from a dict: None and "" are falsy.
Truthy(x) == x \notin {None, ""}

\* An optional list or dict: None, or the value.
PyNone == [isnone |-> TRUE, val |-> <<>>]

Py(v) == [isnone |-> FALSE, val |-> v]

\* ModelContext.data: a string, a nested list of numbers, or a numpy array
\* of numbers.
SerData ==
    {[kind |-> "str", text |-> "hello", val |-> <<>>],
     [kind |-> "list", text |-> "", val |-> <<<<1, 2>>, <<3, 0>>>>],
     [kind |-> "ndarray", text |-> "", val |-> <<<<1, 2>>, <<3, 0>>>>]}

\* ContextMetadata objects and their dict form have the same six fields.
SerMetadata ==
    [creation_time : {1}, source : {"user_input"}, version : {"1.0"},
     dimensions : {PyNone, Py(<<2, 2>>)}, content_type : {None, "text/plain"},
     tags : {<<>>, <<"t">>}]

SerContexts ==
    [context_id : {"c"},
     context_type : {EnumMember("ContextType", t) : t \in ContextType},
     data : SerData,
     metadata : SerMetadata,
     model_type : {NoneMember} \cup {EnumMember("ModelType", t) : t \in ModelType}]

NoSerContext ==
    [context_id |-> None, context_type |-> NoneMember,
     data |-> [kind |-> None, text |-> "", val |-> <<>>],
     metadata |-> [creation_time |-> 0, source |-> None, version |-> None,
                   dimensions |-> PyNone, content_type |-> None, tags |-> <<>>],
     model_type |-> NoneMember]

\* Tags a dict handed to from_dict may carry: the enum's own, and others.
UnknownTags == {"", "TEXT", "bogus"}

SerContextDicts ==
    [context_id : {"c"},
     context_type : ContextType \cup UnknownTags,
     data : {x \in SerData : x.kind # "ndarray"},
     metadata : SerMetadata,
     model_type : ModelType \cup UnknownTags \cup {None}]

NoSerContextDict ==
    [context_id |-> None, context_type |-> None,
     data |-> [kind |-> None, text |-> "", val |-> <<>>],
     metadata |-> NoSerContext.metadata, model_type |-> None]

\* ContextMetadata.to_dict, lines 52-61, and from_dict, lines 63-73.
MetadataToDict(m) ==
    [creation_time |-> m.creation_time, source |-> m.source, version |-> m.version,
     dimensions |-> m.dimensions, content_type |-> m.content_type, tags |-> m.tags]

MetadataFromDict(d) ==
    [creation_time |-> d.creation_time, source |-> d.source, version |-> d.version,
     dimensions |-> d.dimensions, content_type |-> d.content_type, tags |-> d.tags]

\* numpy.ndarray.tolist(): the nested list of the array's numbers.
ToList(data) == [data EXCEPT !.kind = "list"]

\* ModelContext.to_dict, lines 90-104.
ContextToDict_droptype(c) ==
    [context_id |-> c.context_id,
     context_type |-> c.context_type.value,
     data |-> IF c.data.kind = "ndarray" THEN ToList(c.data) ELSE c.data,
     metadata |-> MetadataToDict(c.metadata),
     model_type |-> None]

ContextToDict(c) ==
    [context_id |-> c.context_id,
     context_type |-> c.context_type.value,
     data |-> IF c.data.kind = "ndarray" THEN ToList(c.data) ELSE c.data,
     metadata |-> MetadataToDict(c.metadata),
     model_type |-> IF c.model_type # NoneMember THEN c.model_type.value ELSE None]

\* ModelContext.from_dict, lines 110-123: raises when an enum lookup does.
ContextFromDictRaises(d) ==
    \/ ~EnumKnows("ContextType", d.context_type)
    \/ Truthy(d.model_type) /\ ~EnumKnows("ModelType", d.model_type)

ContextFromDict(d) ==
    IF ContextFromDictRaises(d) THEN NoSerContext
    ELSE [context_id |-> d.context_id,
          context_type |-> EnumMember("ContextType", d.context_type),
          data |-> d.data,
          metadata |-> MetadataFromDict(d.metadata),
          model_type |-> IF Truthy(d.model_type) THEN EnumMember("ModelType", d.model_type)
                         ELSE NoneMember]

\* ModelInfo objects: metadata is a dict or the default None.
SerInfos ==
    [model_id : {"m1"}, name : {"n"}, version : {"1.0"},
     model_type : {EnumMember("ModelType", t) : t \in ModelType},
     description : {"d"},
     supported_context_types :
        {<<>>, <<EnumMember("ContextType", TEXT)>>,
         <<EnumMember("ContextType", TEXT), EnumMember("ContextType", IMAGE)>>},
     status : {EnumMember("ModelStatus", t) : t \in ModelStatus},
     metadata : {PyNone, Py(<<>>), Py(<<[key |-> "k", value |-> "v"]>>)}]

NoSerInfo ==
    [model_id |-> None, name |-> None, version |-> None, model_type |-> NoneMember,
     description |-> None, supported_context_types |-> <<>>, status |-> NoneMember,
     metadata |-> PyNone]

SerInfoDicts ==
    [model_id : {"m1"}, name : {"n"}, version : {"1.0"},
     model_type : ModelType \cup UnknownTags,
     description : {"d"},
     supported_context_types : {<<>>, <<TEXT>>, <<TEXT, IMAGE>>, <<TEXT, "bogus">>, <<"">>},
     status : ModelStatus \cup UnknownTags,
     metadata : {Py(<<>>), Py(<<[key |-> "k", value |-> "v"]>>)}]

NoSerInfoDict ==
    [model_id |-> None, name |-> None, version |-> None, model_type |-> None,
     description |-> None, supported_context_types |-> <<>>, status |-> None,
     metadata |-> PyNone]

\* ModelInfo.to_dict, lines 47-58; metadata is written as self.metadata or {}.
InfoToDict(i) ==
    [model_id |-> i.model_id, name |-> i.name, version |-> i.version,
     model_type |-> i.model_type.value,
     description |-> i.description,
     supported_context_types |->
        [k \in 1..Len(i.supported_context_types) |-> i.supported_context_types[k].value],
     status |-> i.status.value,
     metadata |-> IF i.metadata.isnone \/ i.metadata.val = <<>> THEN Py(<<>>) ELSE i.metadata]

\* ModelInfo.from_dict, lines 60-72: raises when an enum lookup does.
InfoFromDictRaises(d) ==
    \/ ~EnumKnows("ModelType", d.model_type)
    \/ \E k \in 1..Len(d.supported_context_types) :
          ~EnumKnows("ContextType", d.supported_context_types[k])
    \/ ~EnumKnows("ModelStatus", d.status)

InfoFromDict(d) ==
    IF InfoFromDictRaises(d) THEN NoSerInfo
    ELSE [model_id |-> d.model_id, name |-> d.name, version |-> d.version,
          model_type |-> EnumMember("ModelType", d.model_type),
          description |-> d.description,
          supported_context_types |->
             [k \in 1..Len(d.supported_context_types) |->
                 EnumMember("ContextType", d.supported_context_types[k])],
          status |-> EnumMember("ModelStatus", d.status),
          metadata |-> d.metadata]

\* ------------------------------------------------- the variants' run
\* LanguageModel.run, lines 67-68, and VisionModel.run, lines 130-137:
\* the call raises for another context type; the vision model also raises
\* for data that _load_image cannot turn into an image.
VariantRunRaises(cls, c) ==
    IF cls = "LanguageModel" THEN c.context_type # EnumMember("ContextType", TEXT)
    ELSE c.context_type # EnumMember("ContextType", IMAGE) \/ c.data.kind = "list"

\* Lines 90-105 of language_model.py and 192-207 of vision_model.py: the
\* output context built at time t for input c.
VariantOutput(cls, c, t) ==
    [context_id |-> c.context_id \o (IF cls = "LanguageModel" THEN "_response" ELSE "_result"),
     context_type |-> EnumMember("ContextType", IF cls = "LanguageModel" THEN TEXT ELSE CATEGORICAL),
     data |-> [kind |-> IF cls = "LanguageModel" THEN "str" ELSE "dict",
               text |-> IF cls = "LanguageModel" THEN "Response to: " \o c.data.text ELSE "",
               val |-> <<>>],
     metadata |-> [creation_time |-> t,
                   source |-> IF cls = "LanguageModel" THEN "language_model" ELSE "vision_model",
                   version |-> "1.0",
                   dimensions |-> PyNone,
                   content_type |-> IF cls = "LanguageModel" THEN "text/plain" ELSE "application/json",
                   tags |-> IF cls = "LanguageModel" THEN <<"generated", "language-model">>
                            ELSE <<"inference", "vision-model", "classification">>],
     model_type |-> EnumMember("ModelType", IF cls = "LanguageModel" THEN LANGUAGE ELSE VISION)]

\* The input context object after run: run only reads it.
InputAfterRun_retyped(cls, c) ==
    [c EXCEPT !.context_type = EnumMember("ContextType", IF cls = "LanguageModel" THEN TEXT ELSE CATEGORICAL)]

InputAfterRun(cls, c) == c

\* ------------------------------------------------- blockchain clients
\* What each client method of utils/blockchain.py does when called: the
\* registry and mint methods return their fixed values; transfer_tokens
\* raises ValueError when neither a sender nor a loaded keypair is there.
RegisterModelOutcomes == {"signature"}

GetModelDataOutcomes == {"data"}

MintTokensOutcomes == {"signature"}

TransferTokensOutcomes(keypair) == IF keypair THEN {"signature"} ELSE {"raise"}

\* The driver's frame: function, position, arguments, the models still to
\* register, the signatures collected, the client calls made so far in this
\* invocation, and its result.
NoDrv == [fn |-> None, stage |-> None, model_id |-> None, context |-> NoContext,
          todo |-> <<>>, tx_signatures |-> <<>>, calls |-> <<>>, result |-> None,
          seen |-> None]

\* The drivers' test model.status == ModelStatus.INITIALIZING on the status
\* they read.
NeedsInitialize_unlessready(st) == st # READY

NeedsInitialize(st) == st = INITIALIZING

ChainCall(method, id, outcome) == [method |-> method, model_id |-> id, outcome |-> outcome]

\* The for loop of register_models_on_chain moves on to the next model.
NextModels_retry(todo) == todo

NextModels(todo) == Tail(todo)

\* The caller through which the example script uses the manager.
D == 1

NoSer == [op |-> None, ctx |-> NoSerContext, ctx_dict |-> NoSerContextDict,
          ctx_out |-> NoSerContext, info |-> NoSerInfo, info_dict |-> NoSerInfoDict,
          info_out |-> NoSerInfo, raised |-> FALSE]

\* given is the context as the caller passed it, context the same object
\* after the call.
NoRunCall == [cls |-> None, given |-> NoSerContext, context |-> NoSerContext,
              output |-> NoSerContext, raised |-> FALSE, time |-> 0]

Init ==
    /\ contexts = <<>>
    /\ reg = NoReg
    /\ drv = NoDrv
    /\ ser = NoSer
    /\ runcall = NoRunCall
    /\ models = <<>>
    /\ objs = [o \in Objs |-> NoObj]
    /\ now = 1
    /\ pc = [c \in Callers |-> "idle"]
    /\ call = [c \in Callers |-> NoCall]
    /\ local = [c \in Callers |-> NoLocal]
    /\ ret = [c \in Callers |-> NoRet]

\* An instance exists while the manager or a caller refers to it.
Live(o) ==
    \/ o \in SeqToSet(DictValues(models))
    \/ \E c \in Callers :
          \/ call[c].obj = o
          \/ local[c].model = o
          \/ ret[c].obj = o
          \/ o \in SeqToSet(ret[c].infos)

Collect(os) == [o \in Objs |-> IF Live(o)' THEN os[o] ELSE NoObj]

\* ------------------------------------------------ the manager's decisions
\* Lines 136-141 of register_model: the dict after the call, and the result.
Registered_byname(d, o) == IF DictHas(d, model_id(o)) THEN d ELSE DictSet(d, o, o)

Registered_overwrite(d, o) == DictSet(d, model_id(o), o)

Registered_lost(d, o) == d

Registered(d, o) == IF DictHas(d, model_id(o)) THEN d ELSE DictSet(d, model_id(o), o)

RegisterResult(d, o) == ~DictHas(d, model_id(o))

\* Line 140 of register_model: the instance is stored as it was passed.
StoredInstance_initialized(m) == [m EXCEPT !.status = READY]

StoredInstance(m) == m

\* Lines 146-148 of initialize_model and 165-167 of run_model: unknown id.
InitializeNotFound_none == RetNone

InitializeNotFound == RetBool(FALSE)

RunNotFound == RetNone

\* Lines 205-208 of unregister_model: the dict after the call, and the result.
Unregistered_keep(d, id) == d

Unregistered_all(d, id) == IF DictHas(d, id) THEN << >> ELSE d

Unregistered(d, id) == IF DictHas(d, id) THEN DictDel(d, id) ELSE d

UnregisterResult(d, id) == DictHas(d, id)

\* Lines 152-160 of initialize_model: the status set and the value returned
\* for each outcome of model.initialize().
InitializeStatus_unlessrunning(outcome) ==
    IF \E d \in Callers : pc[d] = "run" THEN RUNNING
    ELSE IF outcome = "true" THEN READY ELSE ERROR

InitializeStatus_ready(outcome) == IF outcome = "raise" THEN ERROR ELSE READY

InitializeStatus(outcome) == IF outcome = "true" THEN READY ELSE ERROR

InitializeReturn_propagate(outcome) ==
    IF outcome = "raise" THEN RetException ELSE RetBool(outcome = "true")

InitializeReturn(outcome) == RetBool(outcome = "true")

\* Line 169 of run_model.
NotReady_errorok(st) == st \notin {READY, ERROR}

NotReady_lax(st) == st \in {RUNNING, ERROR, STOPPED}

NotReady_busy(st) == st # READY \/ \E d \in Callers : pc[d] \in {"run_checked", "run"}

NotReady(st) == st # READY

\* Lines 182-184 of run_model: model.run() returned result.
RunSucceeded_sticky(m, t) ==
    [m EXCEPT !.status = IF @ = ERROR THEN ERROR ELSE READY, !.last_run_time = t]

RunSucceeded_running(m, t) == [m EXCEPT !.last_run_time = t]

RunSucceeded_nostamp(m, t) == [m EXCEPT !.status = READY]

RunSucceeded(m, t) == [m EXCEPT !.status = READY, !.last_run_time = t]

RunSucceededReturn(result) == RetContext(result)

\* Lines 185-188 of run_model: model.run() raised.
RunFailed_running(m) == [m EXCEPT !.status = RUNNING]

RunFailed_stamp(m) == [m EXCEPT !.status = ERROR, !.last_run_time = now]

RunFailed_keep(m) == m

RunFailed_stop(m) == [m EXCEPT !.status = STOPPED]

RunFailed(m) == [m EXCEPT !.status = ERROR]

RunFailedReturn == RetNone

\* Line 192 of get_model.
GetModelResult(d, id) == RetModel(DictGet(d, id))

\* The call of caller c ends with return value r.
Returns(c, r) ==
    /\ pc' = [pc EXCEPT ![c] = "returned"]
    /\ ret' = [ret EXCEPT ![c] = r]

\* -------------------------------------------------------- register_model
\* The caller passes instance o: one it constructs for the call with status
\* st (ModelInfo.status), or one that already exists.
register_model(c, o, st) ==
    LET constructed == IF objs[o] = NoObj THEN [objs EXCEPT ![o] = NewAIModel(st)] ELSE objs
        os == IF RegisterResult(models, o)
              THEN [constructed EXCEPT ![o] = StoredInstance(constructed[o])]
              ELSE constructed
    IN  /\ pc[c] = "idle"
        /\ objs[o] # NoObj => st = objs[o].status
        /\ call' = [call EXCEPT ![c] = [NoCall EXCEPT !.op = "register_model", !.obj = o,
                                                      !.model_id = model_id(o), !.status = st]]
        /\ local' = local
        /\ models' = Registered(models, o)
        /\ Returns(c, RetBool(RegisterResult(models, o)))
        /\ objs' = Collect(os)
        /\ now' = now

\* ------------------------------------------------------ initialize_model
\* Lines 145-151: look the model up and enter model.initialize().
initialize_model(c, id) ==
    LET model == DictGet(models, id)
    IN  /\ pc[c] = "idle"
        /\ call' = [call EXCEPT ![c] = [NoCall EXCEPT !.op = "initialize_model", !.model_id = id]]
        /\ IF model = None
           THEN /\ local' = local
                /\ Returns(c, InitializeNotFound)
           ELSE /\ local' = [local EXCEPT ![c] = [NoLocal EXCEPT !.model = model, !.seen = objs[model].status,
                                                                 !.invoked = TRUE]]
                /\ pc' = [pc EXCEPT ![c] = "initialize"]
                /\ ret' = ret
        /\ UNCHANGED <<models, objs, now>>

\* Lines 151-160: model.initialize() returns success, returns failure or raises.
initialize_done(c, outcome) ==
    LET model == local[c].model
    IN  /\ pc[c] = "initialize"
        /\ outcome \in InitializeOutcomes(model)
        /\ local' = [local EXCEPT ![c].outcome = outcome,
                                  ![c].overlap = \E d \in Callers \ {c} :
                                                    pc[d] = "run" /\ local[d].model = model]
        /\ UNCHANGED <<models, now, call>>
        /\ Returns(c, InitializeReturn(outcome))
        /\ objs' = Collect([objs EXCEPT ![model].status = InitializeStatus(outcome)])

\* ------------------------------------------------------------- run_model
\* Lines 164-177: look the model up, check its status and the context type.
run_model(c, id, ctx) ==
    LET model == DictGet(models, id)
    IN  /\ pc[c] = "idle"
        /\ call' = [call EXCEPT ![c] = [NoCall EXCEPT !.op = "run_model", !.model_id = id,
                                                      !.context = ctx]]
        /\ IF model = None
           THEN /\ local' = local
                /\ Returns(c, RunNotFound)
           ELSE /\ local' = [local EXCEPT ![c] = [NoLocal EXCEPT !.model = model, !.seen = objs[model].status]]
                /\ IF NotReady(objs[model].status)
                   THEN Returns(c, RetNone)
                   ELSE IF ~supports_context_type(model, ctx.context_type)
                   THEN Returns(c, RetNone)
                   ELSE /\ pc' = [pc EXCEPT ![c] = "run_checked"]
                        /\ ret' = ret
        /\ UNCHANGED <<models, objs, now>>

\* Lines 180-181: set RUNNING and enter model.run(context).
run_invoke(c) ==
    LET model == local[c].model
    IN  /\ pc[c] = "run_checked"
        /\ local' = [local EXCEPT ![c].invoked = TRUE]
        /\ pc' = [pc EXCEPT ![c] = "run"]
        /\ UNCHANGED <<models, now, call, ret>>
        /\ objs' = Collect([objs EXCEPT ![model].status = RUNNING])

\* Lines 181-188: model.run(context) returns its result or raises.
run_done(c, outcome) ==
    LET model == local[c].model
    IN  /\ pc[c] = "run"
        /\ outcome \in RunOutcomes(model, call[c].context)
        /\ local' = [local EXCEPT ![c].outcome = IF outcome.raised THEN "raise" ELSE "return",
                                  ![c].overlap = \E d \in Callers \ {c} :
                                                    pc[d] = "run" /\ local[d].model = model]
        /\ UNCHANGED <<models, now, call>>
        /\ IF ~outcome.raised
           THEN /\ Returns(c, RunSucceededReturn(outcome.context))
                /\ objs' = Collect([objs EXCEPT ![model] = RunSucceeded(objs[model], now)])
           ELSE /\ Returns(c, RunFailedReturn)
                /\ objs' = Collect([objs EXCEPT ![model] = RunFailed(objs[model])])

\* ------------------------------------------------- get, list, unregister
get_model(c, id) ==
    /\ pc[c] = "idle"
    /\ call' = [call EXCEPT ![c] = [NoCall EXCEPT !.op = "get_model", !.model_id = id]]
    /\ Returns(c, GetModelResult(models, id))
    /\ UNCHANGED <<models, objs, now, local>>

\* The returned list holds each model's model_info object itself.
list_models(c, mt) ==
    LET all == DictValues(models)
        sel == IF mt # None
               THEN SelectSeq(all, LAMBDA m : ModelObjects[m].model_type = mt)
               ELSE all
    IN  /\ pc[c] = "idle"
        /\ call' = [call EXCEPT ![c] = [NoCall EXCEPT !.op = "list_models", !.model_type = mt]]
        /\ Returns(c, RetInfos(sel))
        /\ UNCHANGED <<models, objs, now, local>>

unregister_model(c, id) ==
    /\ pc[c] = "idle"
    /\ call' = [call EXCEPT ![c] = [NoCall EXCEPT !.op = "unregister_model", !.model_id = id]]
    /\ local' = local
    /\ models' = Unregistered(models, id)
    /\ Returns(c, RetBool(UnregisterResult(models, id)))
    /\ objs' = Collect(objs)
    /\ now' = now

\* ------------------------------------------------------------ environment
\* The caller takes the return value and drops the call's frame.
Return(c) ==
    /\ pc[c] = "returned"
    /\ pc' = [pc EXCEPT ![c] = "idle"]
    /\ call' = [call EXCEPT ![c] = NoCall]
    /\ local' = [local EXCEPT ![c] = NoLocal]
    /\ ret' = [ret EXCEPT ![c] = NoRet]
    /\ models' = models
    /\ objs' = Collect(objs)
    /\ now' = now

\* The wall clock advances.
Tick ==
    /\ now < MaxTime
    /\ now' = now + 1
    /\ UNCHANGED <<models, objs, pc, call, local, ret>>

Step(c) ==
    \/ \E o \in Objs, st \in ModelStatus : register_model(c, o, st)
    \/ \E id \in ModelIds : initialize_model(c, id)
    \/ \E outcome \in {"true", "false", "raise"} : initialize_done(c, outcome)
    \/ \E id \in ModelIds, ctx \in InputContexts : run_model(c, id, ctx)
    \/ run_invoke(c)
    \/ \E outcome \in {Raise} \cup {Result(x) : x \in [context_id : {"c_response", "c_result", "c_out"},
                                                  context_type : ContextType]} :
          run_done(c, outcome)
    \/ \E id \in ModelIds : get_model(c, id)
    \/ \E mt \in {None, LANGUAGE, VISION} : list_models(c, mt)
    \/ \E id \in ModelIds : unregister_model(c, id)
    \/ Return(c)

Next == ((\E c \in SeqCallers : Step(c)) \/ Tick) /\ UNCHANGED <<regvars, drv, ser, runcall>>

Spec == Init /\ [][Next]_vars

\* A single caller whose models are all constructed as the default
\* factories construct them, with status INITIALIZING.
StepDefault(c) ==
    \/ \E o \in Objs : register_model(c, o, INITIALIZING)
    \/ \E id \in ModelIds : initialize_model(c, id)
    \/ \E outcome \in {"true", "false", "raise"} : initialize_done(c, outcome)
    \/ \E id \in ModelIds, ctx \in InputContexts : run_model(c, id, ctx)
    \/ run_invoke(c)
    \/ \E outcome \in {Raise} \cup {Result(x) : x \in [context_id : {"c_response", "c_result", "c_out"},
                                                  context_type : ContextType]} :
          run_done(c, outcome)
    \/ \E id \in ModelIds : get_model(c, id)
    \/ \E mt \in {None, LANGUAGE, VISION} : list_models(c, mt)
    \/ \E id \in ModelIds : unregister_model(c, id)
    \/ Return(c)

NextDefault ==
    ((\E c \in SeqCallers : StepDefault(c)) \/ Tick) /\ UNCHANGED <<regvars, drv, ser, runcall>>

SpecDefault == Init /\ [][NextDefault]_vars

\* Concurrent callers share the manager that setup_model_manager() builds:
\* the default language model, registered as constructed.
InitConc ==
    /\ contexts = <<>>
    /\ reg = NoReg
    /\ drv = NoDrv
    /\ ser = NoSer
    /\ runcall = NoRunCall
    /\ models = <<[key |-> "m1", value |-> "lm"]>>
    /\ objs = [o \in Objs |-> IF o = "lm" THEN NewAIModel(INITIALIZING) ELSE NoObj]
    /\ now = 1
    /\ pc = [c \in Callers |-> "idle"]
    /\ call = [c \in Callers |-> NoCall]
    /\ local = [c \in Callers |-> NoLocal]
    /\ ret = [c \in Callers |-> NoRet]

StepConc(c) ==
    \/ initialize_model(c, "m1")
    \/ \E outcome \in {"true", "false"} : initialize_done(c, outcome)
    \/ \E ctx \in InputContexts : run_model(c, "m1", ctx)
    \/ run_invoke(c)
    \/ \E outcome \in {Raise, Result([context_id |-> "c_response", context_type |-> TEXT])} :
          run_done(c, outcome)
    \/ list_models(c, None)
    \/ Return(c)

NextConc == ((\E c \in Callers : StepConc(c)) \/ Tick) /\ UNCHANGED <<regvars, drv, ser, runcall>>

SpecConc == InitConc /\ [][NextConc]_vars

\* model.run(context) terminates: a caller inside it gets its result or its
\* exception.
SpecLive ==
    /\ InitConc
    /\ [][NextConc]_vars
    /\ \A c \in Callers :
          WF_vars(\E outcome \in {Raise, Result([context_id |-> "c_response", context_type |-> TEXT])} :
                      run_done(c, outcome) /\ UNCHANGED <<regvars, drv, ser, runcall>>)

\* ------------------------------------------------ ContextRegistry calls
register(ctx) ==
    /\ contexts' = RegistryRegister(contexts, ctx)
    /\ reg' = [NoReg EXCEPT !.op = "register", !.context = ctx,
                            !.warned = RegistryWarns(contexts, ctx)]

get(id) ==
    /\ contexts' = contexts
    /\ reg' = [NoReg EXCEPT !.op = "get", !.context_id = id, !.found = RegistryGet(contexts, id)]

list(ct, mt) ==
    /\ contexts' = contexts
    /\ reg' = [NoReg EXCEPT !.op = "list", !.context_type = ct, !.model_type = mt,
                            !.listed = RegistryList(contexts, ct, mt)]

delete(id) ==
    /\ contexts' = RegistryDelete(contexts, id)
    /\ reg' = [NoReg EXCEPT !.op = "delete", !.context_id = id,
                            !.deleted = RegistryDeleteResult(contexts, id)]

NextReg ==
    /\ \/ \E ctx \in RegContexts : register(ctx)
       \/ \E id \in ContextIds : get(id)
       \/ \E ct \in {None, TEXT, IMAGE}, mt \in {None, LANGUAGE, VISION} : list(ct, mt)
       \/ \E id \in ContextIds : delete(id)
    /\ UNCHANGED <<mgrvars, drv, ser, runcall>>

SpecReg == Init /\ [][NextReg]_vars

\* ------------------------------------------- to_dict / from_dict calls
\* c.to_dict() for a ModelContext c.
context_to_dict(c) ==
    /\ ser = NoSer
    /\ ser' = [NoSer EXCEPT !.op = "ModelContext.to_dict", !.ctx = c, !.ctx_dict = ContextToDict(c)]
    /\ UNCHANGED <<mgrvars, regvars, drv, runcall>>

\* ModelContext.from_dict(d), for the dict the last to_dict produced or for
\* one built elsewhere; ctx keeps the object the dict came from.
context_from_dict(d) ==
    /\ ser = NoSer \/ (ser.op = "ModelContext.to_dict" /\ ser.ctx_dict = d)
    /\ ser' = [NoSer EXCEPT !.op = "ModelContext.from_dict",
                            !.ctx = IF ser.op = "ModelContext.to_dict" THEN ser.ctx ELSE NoSerContext,
                            !.ctx_dict = d,
                            !.ctx_out = ContextFromDict(d),
                            !.raised = ContextFromDictRaises(d)]
    /\ UNCHANGED <<mgrvars, regvars, drv, runcall>>

\* i.to_dict() for a ModelInfo i.
info_to_dict(i) ==
    /\ ser = NoSer
    /\ ser' = [NoSer EXCEPT !.op = "ModelInfo.to_dict", !.info = i, !.info_dict = InfoToDict(i)]
    /\ UNCHANGED <<mgrvars, regvars, drv, runcall>>

\* ModelInfo.from_dict(d), for the dict the last to_dict produced or for one
\* built elsewhere; info keeps the object the dict came from.
info_from_dict(d) ==
    /\ ser = NoSer \/ (ser.op = "ModelInfo.to_dict" /\ ser.info_dict = d)
    /\ ser' = [NoSer EXCEPT !.op = "ModelInfo.from_dict",
                            !.info = IF ser.op = "ModelInfo.to_dict" THEN ser.info ELSE NoSerInfo,
                            !.info_dict = d,
                            !.info_out = InfoFromDict(d),
                            !.raised = InfoFromDictRaises(d)]
    /\ UNCHANGED <<mgrvars, regvars, drv, runcall>>

\* The caller drops the values of the last call.
ser_done ==
    /\ ser # NoSer
    /\ ser' = NoSer
    /\ UNCHANGED <<mgrvars, regvars, drv, runcall>>

NextSer ==
    \/ \E c \in SerContexts : context_to_dict(c)
    \/ \E d \in SerContextDicts : context_from_dict(d)
    \/ \E i \in SerInfos : info_to_dict(i)
    \/ \E d \in SerInfoDicts : info_from_dict(d)
    \/ ser_done

SpecSer == Init /\ [][NextSer]_vars

\* ------------------------------------------------ model.run(context)
\* A LanguageModel's or VisionModel's run is called with context c; it
\* raises where it must, and may raise in inference.
variant_run(cls, c, raises) ==
    /\ runcall = NoRunCall
    /\ VariantRunRaises(cls, c) => raises
    /\ runcall' = [cls |-> cls, given |-> c, context |-> InputAfterRun(cls, c),
                   output |-> IF raises THEN NoSerContext ELSE VariantOutput(cls, c, now),
                   raised |-> raises, time |-> now]
    /\ UNCHANGED <<mgrvars, regvars, drv, ser>>

\* The caller drops the context and the result.
variant_done ==
    /\ runcall # NoRunCall
    /\ runcall' = NoRunCall
    /\ UNCHANGED <<mgrvars, regvars, drv, ser>>

NextRun ==
    \/ \E cls \in {"LanguageModel", "VisionModel"}, c \in SerContexts, raises \in BOOLEAN :
          variant_run(cls, c, raises)
    \/ variant_done
    \/ Tick /\ UNCHANGED <<regvars, drv, ser, runcall>>

SpecRun == Init /\ [][NextRun]_vars

\* -------------------------------------- examples/blockchain_integration
\* register_models_on_chain, line 112: models = model_manager.list_models().
roc_list ==
    /\ drv = NoDrv
    /\ list_models(D, None)
    /\ drv' = [NoDrv EXCEPT !.fn = "register_models_on_chain", !.stage = "listed"]

roc_listed ==
    /\ drv.fn = "register_models_on_chain"
    /\ drv.stage = "listed"
    /\ drv' = [drv EXCEPT !.stage = "loop", !.todo = ret[D].infos]
    /\ Return(D)

\* Lines 116-128: one model_registry.register_model call for the model at
\* hand; its signature is kept when there is one.
roc_register(outcome) ==
    LET id == model_id(Head(drv.todo))
    IN  /\ drv.fn = "register_models_on_chain"
        /\ drv.stage = "loop"
        /\ drv.todo # <<>>
        /\ outcome \in RegisterModelOutcomes
        /\ drv' = IF outcome = "raise"
                  THEN [drv EXCEPT !.stage = "done", !.result = "raise",
                                   !.calls = Append(@, ChainCall("register_model", id, outcome))]
                  ELSE [drv EXCEPT !.todo = NextModels(@),
                                   !.tx_signatures = IF outcome = "signature" THEN Append(@, id) ELSE @,
                                   !.calls = Append(@, ChainCall("register_model", id, outcome))]
        /\ UNCHANGED mgrvars

\* Line 130: return tx_signatures.
roc_return ==
    /\ drv.fn = "register_models_on_chain"
    /\ drv.stage = "loop"
    /\ drv.todo = <<>>
    /\ drv' = [drv EXCEPT !.stage = "done", !.result = "tx_signatures"]
    /\ UNCHANGED mgrvars

\* mint_tokens_for_model_access, lines 139-146.
mint_tokens_for_model_access(outcome) ==
    /\ drv = NoDrv
    /\ pc[D] = "idle"
    /\ outcome \in MintTokensOutcomes
    /\ drv' = [NoDrv EXCEPT !.fn = "mint_tokens_for_model_access", !.stage = "done",
                            !.calls = <<ChainCall("mint_tokens", None, outcome)>>,
                            !.result = IF outcome = "signature" THEN "tx_sig" ELSE outcome]
    /\ UNCHANGED mgrvars

\* MCPTokenClient.transfer_tokens called by the script itself.
transfer_tokens(keypair, outcome) ==
    /\ drv = NoDrv
    /\ pc[D] = "idle"
    /\ outcome \in TransferTokensOutcomes(keypair)
    /\ drv' = [NoDrv EXCEPT !.fn = "transfer_tokens", !.stage = "done",
                            !.calls = <<ChainCall("transfer_tokens", None, outcome)>>,
                            !.result = IF outcome = "signature" THEN "tx_sig" ELSE outcome]
    /\ UNCHANGED mgrvars

\* run_model_with_blockchain_verification, lines 155-158: the model is
\* looked up on the chain first.
rv_verify(id, ctx, outcome) ==
    /\ drv = NoDrv
    /\ pc[D] = "idle"
    /\ outcome \in GetModelDataOutcomes
    /\ drv' = LET d == [NoDrv EXCEPT !.fn = "run_model_with_blockchain_verification",
                                     !.model_id = id, !.context = ctx,
                                     !.calls = <<ChainCall("get_model_data", id, outcome)>>]
              IN  IF outcome = "data" THEN [d EXCEPT !.stage = "verified"]
                  ELSE [d EXCEPT !.stage = "done",
                                 !.result = IF outcome = "raise" THEN "raise" ELSE "None"]
    /\ UNCHANGED mgrvars

\* Lines 161-164: model = model_manager.get_model(model_id).
rv_get ==
    /\ drv.fn = "run_model_with_blockchain_verification"
    /\ drv.stage = "verified"
    /\ get_model(D, drv.model_id)
    /\ drv' = [drv EXCEPT !.stage = "get"]

\* Lines 162-167: not found locally, or the status decides on initializing.
rv_got ==
    /\ drv.fn = "run_model_with_blockchain_verification"
    /\ drv.stage = "get"
    /\ drv' = IF ret[D].obj = None
              THEN [drv EXCEPT !.stage = "done", !.result = "None"]
              ELSE IF NeedsInitialize(objs[ret[D].obj].status)
              THEN [drv EXCEPT !.stage = "to_initialize", !.seen = objs[ret[D].obj].status]
              ELSE [drv EXCEPT !.stage = "to_run", !.seen = objs[ret[D].obj].status]
    /\ Return(D)

\* Line 169: model_manager.initialize_model(model_id).
rv_initialize ==
    /\ drv.fn = "run_model_with_blockchain_verification"
    /\ drv.stage = "to_initialize"
    /\ initialize_model(D, drv.model_id)
    /\ drv' = [drv EXCEPT !.stage = "initialize"]

\* Lines 169-171: a failed initialization ends the driver with None.
rv_initialized ==
    /\ drv.fn = "run_model_with_blockchain_verification"
    /\ drv.stage = "initialize"
    /\ pc[D] = "returned"
    /\ drv' = IF ret[D].bool THEN [drv EXCEPT !.stage = "to_run"]
              ELSE [drv EXCEPT !.stage = "done", !.result = "None"]
    /\ Return(D)

\* Line 175: result = model_manager.run_model(model_id, context).
rv_run ==
    /\ drv.fn = "run_model_with_blockchain_verification"
    /\ drv.stage = "to_run"
    /\ run_model(D, drv.model_id, drv.context)
    /\ drv' = [drv EXCEPT !.stage = "run"]

\* Line 180: return result.
rv_return ==
    /\ drv.fn = "run_model_with_blockchain_verification"
    /\ drv.stage = "run"
    /\ pc[D] = "returned"
    /\ drv' = [drv EXCEPT !.stage = "done",
                          !.result = IF ret[D].tag = "context" THEN "context" ELSE "None"]
    /\ Return(D)

\* ------------------------------------------- main.run_text_generation
\* The contexts run_text_generation builds and registers: the input, lines
\* 89-103, and the form in which the registry holds the model's output.
TextInput == [context_id |-> "c", context_type |-> TEXT]

AsRegContext(ctx, mt, data) ==
    [context_id |-> ctx.context_id, context_type |-> ctx.context_type,
     model_type |-> mt, data |-> data]

\* Lines 89-106: build the input context and register it.
rtg_register ==
    /\ drv = NoDrv
    /\ pc[D] = "idle"
    /\ register(AsRegContext(TextInput, LANGUAGE, "input_text"))
    /\ drv' = [NoDrv EXCEPT !.fn = "run_text_generation", !.stage = "registered",
                            !.context = TextInput]
    /\ UNCHANGED mgrvars

\* Line 109: models = manager.list_models(model_type=ModelType.LANGUAGE).
rtg_list ==
    /\ drv.fn = "run_text_generation"
    /\ drv.stage = "registered"
    /\ list_models(D, LANGUAGE)
    /\ drv' = [drv EXCEPT !.stage = "listed"]
    /\ UNCHANGED regvars

\* Lines 110-115: no language model, or the first one's model_id.
rtg_listed ==
    /\ drv.fn = "run_text_generation"
    /\ drv.stage = "listed"
    /\ drv' = IF ret[D].infos = <<>>
              THEN [drv EXCEPT !.stage = "done", !.result = "None"]
              ELSE [drv EXCEPT !.stage = "to_get", !.model_id = model_id(ret[D].infos[1])]
    /\ Return(D)
    /\ UNCHANGED regvars

\* Line 118: model = manager.get_model(model_id).
rtg_get ==
    /\ drv.fn = "run_text_generation"
    /\ drv.stage = "to_get"
    /\ get_model(D, drv.model_id)
    /\ drv' = [drv EXCEPT !.stage = "get"]
    /\ UNCHANGED regvars

\* Line 119: the status read decides on initializing.
rtg_got ==
    /\ drv.fn = "run_text_generation"
    /\ drv.stage = "get"
    /\ ret[D].obj # None
    /\ drv' = IF NeedsInitialize(objs[ret[D].obj].status)
              THEN [drv EXCEPT !.stage = "to_initialize", !.seen = objs[ret[D].obj].status]
              ELSE [drv EXCEPT !.stage = "to_run", !.seen = objs[ret[D].obj].status]
    /\ Return(D)
    /\ UNCHANGED regvars

\* Line 121: manager.initialize_model(model_id).
rtg_initialize ==
    /\ drv.fn = "run_text_generation"
    /\ drv.stage = "to_initialize"
    /\ initialize_model(D, drv.model_id)
    /\ drv' = [drv EXCEPT !.stage = "initialize"]
    /\ UNCHANGED regvars

\* Lines 121-123: a failed initialization ends the driver with None.
rtg_initialized ==
    /\ drv.fn = "run_text_generation"
    /\ drv.stage = "initialize"
    /\ pc[D] = "returned"
    /\ drv' = IF ret[D].bool THEN [drv EXCEPT !.stage = "to_run"]
              ELSE [drv EXCEPT !.stage = "done", !.result = "None"]
    /\ Return(D)
    /\ UNCHANGED regvars

\* Line 127: output_context = manager.run_model(model_id, input_context).
rtg_run ==
    /\ drv.fn = "run_text_generation"
    /\ drv.stage = "to_run"
    /\ run_model(D, drv.model_id, drv.context)
    /\ drv' = [drv EXCEPT !.stage = "run"]
    /\ UNCHANGED regvars

\* Lines 128-135: None without an output; otherwise the output context is
\* registered and its data returned.
rtg_return ==
    /\ drv.fn = "run_text_generation"
    /\ drv.stage = "run"
    /\ pc[D] = "returned"
    /\ IF ret[D].tag = "context"
       THEN /\ register(AsRegContext(ret[D].context, LANGUAGE, "output_text"))
            /\ drv' = [drv EXCEPT !.stage = "done", !.result = "data"]
       ELSE /\ UNCHANGED regvars
            /\ drv' = [drv EXCEPT !.stage = "done", !.result = "None"]
    /\ Return(D)

\* The script takes the driver's result; another action may follow.
driver_done ==
    /\ drv.stage = "done"
    /\ drv' = NoDrv
    /\ UNCHANGED mgrvars

\* The manager's own steps inside a call the driver made.
manager_step ==
    /\ \/ \E outcome \in {"true", "false"} : initialize_done(D, outcome)
       \/ run_invoke(D)
       \/ \E outcome \in {Raise, Result([context_id |-> "c_response", context_type |-> TEXT]),
                                  Result([context_id |-> "c_result", context_type |-> CATEGORICAL])} :
             run_done(D, outcome)
       \/ Tick
    /\ drv' = drv

\* main, lines 217-224: the manager holds the default language and vision
\* models, registered as constructed.
InitDriver ==
    /\ contexts = <<>>
    /\ reg = NoReg
    /\ drv = NoDrv
    /\ ser = NoSer
    /\ runcall = NoRunCall
    /\ models = <<[key |-> "m1", value |-> "lm"], [key |-> "m2", value |-> "vm"]>>
    /\ objs = [o \in Objs |-> IF o \in {"lm", "vm"} THEN NewAIModel(INITIALIZING) ELSE NoObj]
    /\ now = 1
    /\ pc = [c \in Callers |-> "idle"]
    /\ call = [c \in Callers |-> NoCall]
    /\ local = [c \in Callers |-> NoLocal]
    /\ ret = [c \in Callers |-> NoRet]

DriverModelIds == ModelIds \cup {"m3"}

NextDriver ==
    /\ \/ roc_list
       \/ roc_listed
       \/ \E outcome \in {"signature", "None", "raise"} : roc_register(outcome)
       \/ roc_return
       \/ \E outcome \in {"signature", "None", "raise"} : mint_tokens_for_model_access(outcome)
       \/ \E keypair \in BOOLEAN, outcome \in {"signature", "raise"} : transfer_tokens(keypair, outcome)
       \/ \E id \in DriverModelIds, ctx \in InputContexts, outcome \in {"data", "None", "raise"} :
             rv_verify(id, ctx, outcome)
       \/ rv_get
       \/ rv_got
       \/ rv_initialize
       \/ rv_initialized
       \/ rv_run
       \/ rv_return
       \/ driver_done
       \/ manager_step
    /\ UNCHANGED <<regvars, ser, runcall>>

\* main.py's script: the same manager, with run_text_generation as well.
NextDriverText ==
    /\ \/ rtg_register
       \/ rtg_list
       \/ rtg_listed
       \/ rtg_get
       \/ rtg_got
       \/ rtg_initialize
       \/ rtg_initialized
       \/ rtg_run
       \/ rtg_return
    /\ UNCHANGED <<ser, runcall>>

SpecDriver == InitDriver /\ [][NextDriver]_vars

SpecDrivers == InitDriver /\ [][NextDriver \/ NextDriverText]_vars

TypeOK ==
    /\ now \in 1..MaxTime
    /\ \A o \in Objs : objs[o] = NoObj \/
          (objs[o].status \in ModelStatus /\ objs[o].last_run_time \in 0..MaxTime)
    /\ \A c \in Callers : pc[c] \in {"idle", "initialize", "run_checked", "run", "returned"}

\* ================================================================ claims
\* Caller c begins a call of operation name in this step.
Calls(c, name) == pc[c] = "idle" /\ pc'[c] # "idle" /\ call'[c].op = name

\* Caller c has returned from a call of operation name.
Returned(c, name) == pc[c] = "returned" /\ call[c].op = name

Supported(m) == SeqToSet(ModelObjects[m].supported_context_types)

\* C1: run_model on a registered model whose status is not READY returns
\* None, does not enter the model's run and leaves the status (and every
\* other piece of manager state) unchanged.
C1_NotReadyRejected ==
    [][\A c \in Callers :
          LET m == DictGet(models, call'[c].model_id)
          IN  (Calls(c, "run_model") /\ m # None /\ objs[m].status # READY)
              => /\ pc'[c] = "returned"
                 /\ ret'[c] = RetNone
                 /\ ~local'[c].invoked
                 /\ objs' = objs
                 /\ models' = models]_vars

C1_Witness ==
    \E c \in Callers :
        /\ Returned(c, "run_model")
        /\ local[c].seen = STOPPED
        /\ ~local[c].invoked
        /\ ret[c] = RetNone
        /\ objs[local[c].model].status = STOPPED

\* C2: run_model on a READY model with a context type outside the model's
\* supported_context_types returns None without entering the model's run,
\* and the status stays READY.
C2_UnsupportedTypeRejected ==
    [][\A c \in Callers :
          LET m == DictGet(models, call'[c].model_id)
          IN  (/\ Calls(c, "run_model")
               /\ m # None
               /\ objs[m].status = READY
               /\ call'[c].context.context_type \notin Supported(m))
              => /\ pc'[c] = "returned"
                 /\ ret'[c] = RetNone
                 /\ ~local'[c].invoked
                 /\ objs'[m].status = READY]_vars

C2_Witness ==
    \E c \in Callers :
        /\ Returned(c, "run_model")
        /\ local[c].model = "lm"
        /\ call[c].context.context_type = IMAGE
        /\ local[c].seen = READY
        /\ ~local[c].invoked
        /\ ret[c] = RetNone
        /\ objs["lm"].status = READY

\* C3: run_model on a registered READY model with a supported context type
\* is admitted; the status is RUNNING while the model's run executes; when
\* run returns, the status is READY, last_run_time is the current time and
\* the call returns run's result.
C3_RunSucceeds ==
    [][\A c \in Callers :
          /\ LET m == DictGet(models, call'[c].model_id)
             IN  (/\ Calls(c, "run_model")
                  /\ m # None
                  /\ objs[m].status = READY
                  /\ call'[c].context.context_type \in Supported(m))
                 => pc'[c] = "run_checked" /\ ~local'[c].invoked
          /\ (pc[c] = "run_checked" /\ pc'[c] # "run_checked")
                => pc'[c] = "run" /\ objs'[local[c].model].status = RUNNING
          /\ (local[c].invoked /\ call[c].op = "run_model" /\ pc[c] # "returned")
                => pc[c] = "run" /\ objs[local[c].model].status = RUNNING
          /\ (pc[c] = "run" /\ pc'[c] = "returned" /\ local'[c].outcome = "return")
                => /\ objs'[local[c].model].status = READY
                   /\ objs'[local[c].model].last_run_time = now
                   /\ ret'[c].tag = "context"
                   /\ Result(ret'[c].context) \in RunOutcomes(local[c].model, call[c].context)]_vars

C3_Witness ==
    \E c \in Callers :
        /\ Returned(c, "run_model")
        /\ local[c].outcome = "return"
        /\ ret[c].tag = "context"
        /\ objs[local[c].model].status = READY
        /\ objs[local[c].model].last_run_time = now
        /\ now > 1

\* C4: when the model's run raises, run_model returns None and the model's
\* status is ERROR when the call returns.
C4_RunFails ==
    \A c \in Callers :
        (Returned(c, "run_model") /\ local[c].outcome = "raise")
            => ret[c] = RetNone /\ objs[local[c].model].status = ERROR

C4_Witness ==
    \E c \in Callers :
        /\ Returned(c, "run_model")
        /\ local[c].invoked
        /\ local[c].outcome = "raise"
        /\ ret[c] = RetNone
        /\ objs[local[c].model].status = ERROR

\* C5: initialize_model on a registered model enters the model's initialize
\* and ends in one of three ways: initialize returned success, status READY
\* and True returned; initialize returned failure, status ERROR and False
\* returned; initialize raised, status ERROR and False returned.
C5_InitializeOutcomes ==
    \A c \in Callers :
        (Returned(c, "initialize_model") /\ DictHas(models, call[c].model_id))
            => /\ local[c].invoked
               /\ local[c].model = DictGet(models, call[c].model_id)
               /\ local[c].outcome \in {"true", "false", "raise"}
               /\ local[c].outcome = "true"
                     => ret[c] = RetBool(TRUE) /\ objs[local[c].model].status = READY
               /\ local[c].outcome = "false"
                     => ret[c] = RetBool(FALSE) /\ objs[local[c].model].status = ERROR
               /\ local[c].outcome = "raise"
                     => ret[c] = RetBool(FALSE) /\ objs[local[c].model].status = ERROR

C5_Witness ==
    \E c \in Callers :
        /\ Returned(c, "initialize_model")
        /\ local[c].outcome = "raise"
        /\ ret[c] = RetBool(FALSE)
        /\ objs[local[c].model].status = ERROR

\* C6: no manager operation returns by propagating an exception, and every
\* call in which the model's initialize or run failed returns False (for
\* initialize_model) or None (for run_model) with the model's status ERROR.
C6_ErrorBoundary ==
    \A c \in Callers :
        /\ ret[c].tag # "exception"
        /\ (pc[c] = "returned" /\ local[c].outcome \in {"false", "raise"})
              => /\ objs[local[c].model].status = ERROR
                 /\ call[c].op = "initialize_model" => ret[c] = RetBool(FALSE)
                 /\ call[c].op = "run_model" => ret[c] = RetNone
                 /\ call[c].op \in {"initialize_model", "run_model"}

C6_Witness ==
    \E c \in Callers :
        /\ Returned(c, "initialize_model")
        /\ local[c].outcome = "raise"
        /\ ret[c].tag = "bool"
        /\ local[c].model = "cm"

\* C7 as stated: a run_model call on a READY model with a context type
\* outside the supported set ends with the model's run having raised,
\* status ERROR and None returned.
C7_UnsupportedRaisesInRun ==
    \A c \in Callers :
        (/\ Returned(c, "run_model")
         /\ local[c].seen = READY
         /\ call[c].context.context_type \notin Supported(local[c].model))
            => /\ local[c].outcome = "raise"
               /\ objs[local[c].model].status = ERROR
               /\ ret[c] = RetNone

\* C7 amended: a context type outside the supported set is rejected by the
\* manager without entering the model's run (None, status still READY); the
\* model's run is entered only for a type in the supported set, and when the
\* model class does not accept that type (a LanguageModel given a non-TEXT
\* context, a VisionModel a non-IMAGE one) run raises and the call ends
\* with status ERROR and None.
C7_UnsupportedHandling ==
    \A c \in Callers :
        (Returned(c, "run_model") /\ local[c].seen = READY)
            => LET m == local[c].model
                   ct == call[c].context.context_type
               IN  /\ ct \notin Supported(m)
                      => /\ ~local[c].invoked
                         /\ local[c].outcome = None
                         /\ objs[m].status = READY
                         /\ ret[c] = RetNone
                   /\ ct \in Supported(m) => local[c].invoked
                   /\ (/\ ct \in Supported(m)
                       /\ \/ ModelObjects[m].cls = "LanguageModel" /\ ct # TEXT
                          \/ ModelObjects[m].cls = "VisionModel" /\ ct # IMAGE)
                      => /\ local[c].outcome = "raise"
                         /\ objs[m].status = ERROR
                         /\ ret[c] = RetNone

C7_Witness ==
    \E c \in Callers :
        /\ Returned(c, "run_model")
        /\ local[c].model = "lm2"
        /\ call[c].context.context_type = IMAGE
        /\ local[c].seen = READY
        /\ local[c].outcome = "raise"
        /\ objs["lm2"].status = ERROR
        /\ ret[c] = RetNone

\* C8: run_model is not serialized per model.  A call that reads READY is
\* admitted whatever other calls are in progress on the model, each admitted
\* call sets RUNNING and enters run, and a run that returns sets READY even
\* while another caller's run on the same model is still executing.
C8_NotReentrant ==
    [][\A c \in Callers :
          /\ LET m == DictGet(models, call'[c].model_id)
             IN  (/\ Calls(c, "run_model")
                  /\ m # None
                  /\ objs[m].status = READY
                  /\ call'[c].context.context_type \in Supported(m))
                 => pc'[c] = "run_checked"
          /\ (pc[c] = "run_checked" /\ pc'[c] # "run_checked")
                => pc'[c] = "run" /\ objs'[local[c].model].status = RUNNING
          /\ (pc[c] = "run" /\ pc'[c] = "returned" /\ local'[c].outcome = "return")
                => /\ objs'[local[c].model].status = READY
                   /\ \A d \in Callers \ {c} : pc'[d] = pc[d]]_vars

C8_Witness ==
    \E c, d \in Callers :
        /\ c # d
        /\ Returned(c, "run_model")
        /\ local[c].seen = READY
        /\ local[c].outcome = "return"
        /\ ret[c].tag = "context"
        /\ pc[d] = "run"
        /\ local[d].seen = READY
        /\ local[d].model = local[c].model
        /\ objs[local[c].model].status = READY

\* C9: register_model with a model_id that is already present returns False
\* and changes nothing: the id still maps to the instance registered first,
\* whose status and last_run_time are as before.
C9_DuplicateRejected ==
    [][\A c \in Callers :
          (Calls(c, "register_model") /\ DictHas(models, call'[c].model_id))
             => LET orig == DictGet(models, call'[c].model_id)
                IN  /\ ret'[c] = RetBool(FALSE)
                    /\ models' = models
                    /\ DictGet(models', call'[c].model_id) = orig
                    /\ objs'[orig] = objs[orig]]_vars

C9_Witness ==
    \E c \in Callers :
        /\ Returned(c, "register_model")
        /\ ret[c] = RetBool(FALSE)
        /\ call[c].obj = "lm2"
        /\ DictGet(models, "m1") = "lm"

\* C10: register_model with a model_id that is not present returns True and
\* stores the instance, so that get_model with that id returns exactly it;
\* get_model returns what the dict holds under the id, and the dict is not
\* changed by the steps between the two calls.
C10_RegisterThenGet ==
    [][\A c \in Callers :
          /\ (Calls(c, "register_model") /\ ~DictHas(models, call'[c].model_id))
                => /\ ret'[c] = RetBool(TRUE)
                   /\ GetModelResult(models', call'[c].model_id) = RetModel(call'[c].obj)
          /\ Calls(c, "get_model")
                => /\ pc'[c] = "returned"
                   /\ ret'[c] = RetModel(DictGet(models, call'[c].model_id))
                   /\ models' = models
          /\ (pc[c] = "returned" /\ pc'[c] = "idle") => models' = models]_vars

C10_Witness ==
    \E c \in Callers :
        /\ Returned(c, "get_model")
        /\ ret[c].tag = "model"
        /\ ret[c].obj = "vm"
        /\ DictGet(models, "m2") = "vm"
        /\ model_id("vm") = call[c].model_id

\* C11: initialize_model and run_model with an id that is not registered
\* return False and None, enter no model method, and change neither the dict
\* nor any instance.
C11_UnknownIdNoOp ==
    [][\A c \in Callers :
          /\ (Calls(c, "initialize_model") /\ ~DictHas(models, call'[c].model_id))
                => /\ pc'[c] = "returned"
                   /\ ret'[c] = RetBool(FALSE)
                   /\ ~local'[c].invoked
                   /\ models' = models
                   /\ objs' = objs
          /\ (Calls(c, "run_model") /\ ~DictHas(models, call'[c].model_id))
                => /\ pc'[c] = "returned"
                   /\ ret'[c] = RetNone
                   /\ ~local'[c].invoked
                   /\ models' = models
                   /\ objs' = objs]_vars

C11_Witness ==
    \E c \in Callers :
        /\ Returned(c, "initialize_model")
        /\ ~DictHas(models, call[c].model_id)
        /\ ret[c] = RetBool(FALSE)
        /\ ~local[c].invoked
        /\ Len(models) = 1
        /\ objs[models[1].value].status = READY

\* C12: unregister_model returns True exactly when the id is registered and
\* then removes that entry only, so that get_model with the id gives None;
\* for an id that is not registered it returns False and changes nothing.
C12_Unregister ==
    [][\A c \in Callers :
          Calls(c, "unregister_model")
             => LET id == call'[c].model_id
                IN  /\ pc'[c] = "returned"
                    /\ ret'[c] = RetBool(DictHas(models, id))
                    /\ DictHas(models, id)
                          => /\ ~DictHas(models', id)
                             /\ GetModelResult(models', id) = RetNone
                             /\ models' = SelectSeq(models, LAMBDA e : e.key # id)
                    /\ ~DictHas(models, id) => models' = models /\ objs' = objs]_vars

C12_Witness ==
    \E c \in Callers :
        /\ Returned(c, "unregister_model")
        /\ ret[c] = RetBool(TRUE)
        /\ ~DictHas(models, call[c].model_id)
        /\ Len(models) = 1

\* C14: no manager operation sets STOPPED.  An instance has status STOPPED
\* in a state only if it had it in the state before, or it is constructed
\* with that status for the register_model call of this step.
C14_StoppedUnreachable ==
    [][\A o \in Objs :
          objs'[o].status = STOPPED
             => \/ objs[o].status = STOPPED
                \/ /\ objs[o] = NoObj
                   /\ \E c \in Callers :
                         /\ Calls(c, "register_model")
                         /\ call'[c].obj = o
                         /\ call'[c].status = STOPPED]_vars

C14_Witness ==
    \E c \in Callers :
        /\ Returned(c, "initialize_model")
        /\ local[c].seen = ERROR
        /\ local[c].outcome = "false"
        /\ objs[local[c].model].status # STOPPED
        /\ objs[local[c].model].last_run_time > 0

\* C15: scenario A on the default language model (LanguageModel, supported
\* types [TEXT]).  Registered as INITIALIZING, initialize_model with a
\* successful initialize returns True and leaves READY; run_model with a TEXT
\* context is then admitted, and when run succeeds it returns a TEXT context
\* whose id is the input id followed by "_response", with status READY.
C15_ScenarioA ==
    [][\A c \in Callers :
          /\ (/\ Returned(c, "initialize_model")
              /\ local[c].model = "lm"
              /\ local[c].seen = INITIALIZING
              /\ local[c].outcome = "true")
                => ret[c] = RetBool(TRUE) /\ objs["lm"].status = READY
          /\ (/\ Calls(c, "run_model")
              /\ DictGet(models, call'[c].model_id) = "lm"
              /\ objs["lm"].status = READY
              /\ call'[c].context.context_type = TEXT)
                => pc'[c] = "run_checked"
          /\ (/\ Returned(c, "run_model")
              /\ local[c].model = "lm"
              /\ local[c].outcome = "return")
                => /\ ret[c].tag = "context"
                   /\ ret[c].context.context_type = TEXT
                   /\ ret[c].context.context_id = call[c].context.context_id \o "_response"
                   /\ objs["lm"].status = READY]_vars

C15_Witness ==
    \E c \in Callers :
        /\ Returned(c, "run_model")
        /\ local[c].model = "lm"
        /\ call[c].context = [context_id |-> "c", context_type |-> TEXT]
        /\ ret[c] = RetContext([context_id |-> "c_response", context_type |-> TEXT])
        /\ objs["lm"].status = READY

\* C16: a successful register_model stores the instance as passed: its
\* status is the one the constructor was given, its last_run_time is
\* untouched, and the model's initialize is not entered.
C16_RegisterAsIs ==
    [][\A c \in Callers :
          (Calls(c, "register_model") /\ ret'[c] = RetBool(TRUE))
             => LET o == call'[c].obj
                IN  /\ pc'[c] = "returned"
                    /\ ~local'[c].invoked
                    /\ DictGet(models', call'[c].model_id) = o
                    /\ objs[o] = NoObj
                          => objs'[o] = [status |-> call'[c].status, last_run_time |-> 0]
                    /\ objs[o] # NoObj => objs'[o] = objs[o]]_vars

C16_Witness ==
    \E c \in Callers :
        /\ Returned(c, "register_model")
        /\ ret[c] = RetBool(TRUE)
        /\ call[c].status = ERROR
        /\ objs[call[c].obj] = [status |-> ERROR, last_run_time |-> 0]

\* The status read through a ModelInfo that list_models returned: the list
\* element is the model's own model_info object (line 201), whose status
\* field is the one AIModel.status reads and writes (lines 100-108).
InfoStatus(info) == objs[info].status

\* C13: a ModelInfo obtained from list_models keeps the status it had when
\* list_models returned it, whatever initialize_model or run_model does to
\* the model afterwards.
C13_ListSnapshots ==
    [][\A c \in Callers :
          (Returned(c, "list_models") /\ pc'[c] = "returned")
             => \A i \in 1..Len(ret[c].infos) :
                   InfoStatus(ret[c].infos[i])' = InfoStatus(ret[c].infos[i])]_vars

\* C18: the run of a LanguageModel or VisionModel fails on type grounds (it
\* can only raise) exactly when the context type is not one of the model's
\* own supported_context_types.
C18_RunValidatesSupported ==
    \A c \in Callers :
        (pc[c] = "run" /\ ModelObjects[local[c].model].cls \in {"LanguageModel", "VisionModel"})
            => LET m == local[c].model
                   ctx == call[c].context
               IN  (ctx.context_type \notin Supported(m)) <=> (RunOutcomes(m, ctx) = {Raise})

\* C19: ContextRegistry.register is last-write-wins.  A register call whose
\* context_id is already present leaves exactly one entry for that id, which
\* is the newly registered context; the context it replaced is no longer held
\* anywhere in the registry; the call does not raise; and a get of an id
\* answers with the one entry held for it.
C19_LastWriteWins ==
    [][/\ (reg'.op = "register" /\ reg'.warned)
           => LET x   == reg'.context
                  id  == x.context_id
                  old == {contexts[i].value : i \in {j \in 1..Len(contexts) : contexts[j].key = id}}
              IN  /\ old # {}
                  /\ Cardinality({i \in 1..Len(contexts') : contexts'[i].key = id}) = 1
                  /\ \A i \in 1..Len(contexts') : contexts'[i].key = id => contexts'[i].value = x
                  /\ \A i \in 1..Len(contexts') : contexts'[i].value \in old => contexts'[i].value = x
                  /\ ~reg'.raised
       /\ reg'.op = "get"
           => \/ \E i \in 1..Len(contexts') :
                    contexts'[i].key = reg'.context_id /\ reg'.found = contexts'[i].value
              \/ /\ \A i \in 1..Len(contexts') : contexts'[i].key # reg'.context_id
                 /\ reg'.found = NoRegContext]_vars

C19_Witness ==
    /\ reg.op = "register"
    /\ reg.warned
    /\ Len(contexts) = 2
    /\ contexts[1].key = reg.context.context_id
    /\ contexts[1].value = reg.context

\* C20: ContextRegistry.list returns exactly the registered contexts that
\* match every supplied filter (an omitted filter matches everything), each
\* once, in the insertion order of the mapping, and changes nothing.
C20_ListFilters ==
    [][reg'.op = "list"
          => LET r  == reg'.listed
                 ct == reg'.context_type
                 mt == reg'.model_type
                 n  == Len(contexts)
                 match == {j \in 1..n : /\ (ct = None \/ contexts[j].value.context_type = ct)
                                        /\ (mt = None \/ contexts[j].value.model_type = mt)}
             IN  /\ contexts' = contexts
                 /\ Len(r) = Cardinality(match)
                 /\ \A i \in 1..Len(r) :
                        \E j \in match :
                           /\ r[i] = contexts[j].value
                           /\ Cardinality({k \in match : k < j}) = i - 1]_vars

C20_Witness ==
    /\ reg.op = "list"
    /\ reg.context_type = TEXT
    /\ reg.model_type = LANGUAGE
    /\ Len(contexts) = 2
    /\ Len(reg.listed) = 2
    /\ reg.listed[1].context_id = "b"
    /\ reg.listed[2].context_id = "a"

\* C17: a blockchain client call (register_model, get_model_data,
\* mint_tokens, transfer_tokens), whatever its outcome, leaves the manager's
\* registered models and every model's state as they were; a driver that
\* makes only client calls never changes them at all; and within one driver
\* invocation no client call is made a second time for the same model.
C17_ChainCallsFrame ==
    [][/\ Len(drv'.calls) > Len(drv.calls) \/ (drv = NoDrv /\ drv'.calls # <<>>)
           => models' = models /\ objs' = objs
       /\ drv'.fn \in {"register_models_on_chain", "mint_tokens_for_model_access", "transfer_tokens"}
           => models' = models /\ objs' = objs
       /\ \A i, j \in 1..Len(drv'.calls) :
              (/\ drv'.calls[i].method = drv'.calls[j].method
               /\ drv'.calls[i].model_id = drv'.calls[j].model_id) => i = j]_vars

C17_Witness ==
    /\ drv.fn = "register_models_on_chain"
    /\ drv.stage = "done"
    /\ drv.tx_signatures = <<"m1", "m2">>
    /\ Len(drv.calls) = 2
    /\ objs["lm"].status = READY
    /\ objs["vm"].status = ERROR

\* C21: ContextRegistry.delete is idempotent.  For a present id it returns
\* True and removes that entry alone, keeping the others in their order; for
\* an absent id it returns False, raises nothing and leaves the registry as
\* it is; a delete that follows a successful delete of the same id returns
\* False and changes nothing.
C21_DeleteIdempotent ==
    [][/\ reg'.op = "delete"
           => LET id   == reg'.context_id
                  rest == SelectSeq(contexts, LAMBDA e : e.key # id)
              IN  /\ ~reg'.raised
                  /\ contexts' = rest
                  /\ reg'.deleted <=> (\E i \in 1..Len(contexts) : contexts[i].key = id)
                  /\ ~reg'.deleted => contexts' = contexts
                  /\ \A i \in 1..Len(contexts') : contexts'[i].key # id
       /\ (reg.op = "delete" /\ reg.deleted /\ reg'.op = "delete" /\ reg'.context_id = reg.context_id)
           => ~reg'.deleted /\ contexts' = contexts]_vars

C21_Witness ==
    /\ reg.op = "delete"
    /\ reg.deleted
    /\ Len(contexts) = 1
    /\ contexts[1].key # reg.context_id

\* C22: ContextRegistry.get returns the context registered under a present
\* id and None for an absent id, and neither get nor list changes the
\* registry's contents.
C22_GetListPure ==
    [][reg'.op \in {"get", "list"}
          => /\ contexts' = contexts
             /\ reg'.op = "get"
                 => LET at == {i \in 1..Len(contexts) : contexts[i].key = reg'.context_id}
                    IN  IF at = {} THEN reg'.found = NoRegContext
                        ELSE \A i \in at : reg'.found = contexts[i].value]_vars

C22_Witness ==
    /\ reg.op = "get"
    /\ Len(contexts) = 2
    /\ contexts[2].key = reg.context_id
    /\ reg.found = contexts[2].value

\* C23: round-trip law of ModelContext.  from_dict applied to the dict that
\* c.to_dict() produced does not raise and gives a context with c's
\* context_id, context_type, model_type (None included) and metadata fields;
\* array data comes back as the nested list of the same numbers, other data
\* as it was.
C23_ContextRoundTrip ==
    (ser.op = "ModelContext.from_dict" /\ ser.ctx # NoSerContext)
        => /\ ~ser.raised
           /\ ser.ctx_out.context_id = ser.ctx.context_id
           /\ ser.ctx_out.context_type = ser.ctx.context_type
           /\ ser.ctx_out.model_type = ser.ctx.model_type
           /\ ser.ctx_out.metadata = ser.ctx.metadata
           /\ ser.ctx_out.data.text = ser.ctx.data.text
           /\ ser.ctx_out.data.val = ser.ctx.data.val
           /\ ser.ctx_out.data.kind = IF ser.ctx.data.kind = "ndarray" THEN "list" ELSE ser.ctx.data.kind

C23_Witness ==
    /\ ser.op = "ModelContext.from_dict"
    /\ ser.ctx.data.kind = "ndarray"
    /\ ser.ctx.model_type = NoneMember
    /\ ser.ctx.metadata.dimensions = Py(<<2, 2>>)
    /\ ser.ctx_out.data.kind = "list"
    /\ ser.ctx_out.context_type = EnumMember("ContextType", IMAGE)

\* C24: round-trip law of ModelInfo.  from_dict applied to the dict that
\* i.to_dict() produced does not raise, the dict carries the enums as their
\* string tags, and the result equals i in model_id, name, version,
\* model_type, description, supported_context_types, status and metadata,
\* a ModelInfo built with the default metadata included.
C24_InfoRoundTrip ==
    (ser.op = "ModelInfo.from_dict" /\ ser.info # NoSerInfo)
        => /\ ~ser.raised
           /\ ser.info_dict.model_type \in ModelType
           /\ ser.info_dict.status \in ModelStatus
           /\ ser.info_out.model_id = ser.info.model_id
           /\ ser.info_out.name = ser.info.name
           /\ ser.info_out.version = ser.info.version
           /\ ser.info_out.model_type = ser.info.model_type
           /\ ser.info_out.description = ser.info.description
           /\ ser.info_out.supported_context_types = ser.info.supported_context_types
           /\ ser.info_out.status = ser.info.status
           /\ ser.info_out.metadata = ser.info.metadata

\* C25: deserialization rejects unknown enum tags.  ModelContext.from_dict
\* raises for every context_type or model_type that is present (not None)
\* and is not a tag of its enum; ModelInfo.from_dict raises likewise for
\* model_type, every element of supported_context_types, and status.
C25_UnknownTagsRejected ==
    /\ ser.op = "ModelContext.from_dict"
        => ((\/ ser.ctx_dict.context_type \notin ContextType
             \/ ser.ctx_dict.model_type # None /\ ser.ctx_dict.model_type \notin ModelType)
            => ser.raised)
    /\ ser.op = "ModelInfo.from_dict"
        => ((\/ ser.info_dict.model_type \notin ModelType
             \/ \E k \in 1..Len(ser.info_dict.supported_context_types) :
                   ser.info_dict.supported_context_types[k] \notin ContextType
             \/ ser.info_dict.status \notin ModelStatus)
            => ser.raised)

\* C26: a model's run never mutates its input context.  After
\* LanguageModel.run or VisionModel.run the input context has the id, type,
\* data and metadata it was given with; a returned context is another
\* context, with the input id plus "_response" and type TEXT (language) or
\* plus "_result" and type CATEGORICAL (vision), and with metadata created
\* in the call, not the input's.
C26_RunKeepsInput ==
    runcall.cls # None
        => /\ runcall.context.context_id = runcall.given.context_id
           /\ runcall.context.context_type = runcall.given.context_type
           /\ runcall.context.data = runcall.given.data
           /\ runcall.context.metadata = runcall.given.metadata
           /\ ~runcall.raised
               => /\ runcall.output # runcall.context
                  /\ runcall.output.metadata # runcall.given.metadata
                  /\ runcall.output.metadata.creation_time = runcall.time
                  /\ runcall.cls = "LanguageModel"
                      => /\ runcall.output.context_id = runcall.given.context_id \o "_response"
                         /\ runcall.output.context_type.value = TEXT
                  /\ runcall.cls = "VisionModel"
                      => /\ runcall.output.context_id = runcall.given.context_id \o "_result"
                         /\ runcall.output.context_type.value = CATEGORICAL

C26_Witness ==
    /\ runcall.cls = "VisionModel"
    /\ ~runcall.raised
    /\ runcall.given.data.kind = "ndarray"
    /\ runcall.context = runcall.given
    /\ runcall.output.context_id = "c_result"
    /\ runcall.time = 2

\* C27: run_text_generation and run_model_with_blockchain_verification call
\* initialize_model exactly when the status they read is INITIALIZING: they
\* go on to initialize_model in that case and straight to run_model in every
\* other; when initialize_model returns False they return None and run_model
\* is not called; no step of a driver takes a model out of ERROR, and a
\* driver that read ERROR returns None.
C27_DriverInitialize ==
    [][LET runner == drv.fn \in {"run_text_generation", "run_model_with_blockchain_verification"}
           status == objs[DictGet(models, drv.model_id)].status
       IN  /\ (runner /\ drv.stage = "get" /\ drv'.stage \in {"to_initialize", "to_run"})
                => /\ drv'.seen = status
                   /\ drv'.stage = "to_initialize" <=> status = INITIALIZING
           /\ (runner /\ Calls(D, "initialize_model"))
                => drv.stage = "to_initialize" /\ status = INITIALIZING
           /\ (runner /\ drv.stage = "to_initialize" /\ drv' # drv)
                => Calls(D, "initialize_model")
           /\ (runner /\ Calls(D, "run_model"))
                => /\ drv.stage = "to_run"
                   /\ status # INITIALIZING
                   /\ drv.seen = INITIALIZING => status = READY
           /\ (runner /\ drv.stage = "initialize" /\ drv' # drv /\ ~ret[D].bool)
                => drv'.stage = "done" /\ drv'.result = "None"
           /\ \A o \in Objs : objs[o].status = ERROR => objs'[o].status = ERROR
           /\ (runner /\ drv'.stage = "done" /\ drv'.seen = ERROR)
                => drv'.result = "None"]_vars

C27_Witness ==
    /\ drv.fn = "run_text_generation"
    /\ drv.stage = "done"
    /\ drv.seen = ERROR
    /\ drv.result = "None"
    /\ objs["lm"].status = ERROR
    /\ Len(contexts) = 2

\* C28: with a single caller and models constructed as INITIALIZING, RUNNING
\* is seen only inside the run_model call that set it: the call resets the
\* status to READY or ERROR as it returns, and whenever no call is in
\* progress every model's status is INITIALIZING, READY or ERROR.
C28_RunningNotObservable ==
    [][\A c \in SeqCallers :
          /\ \A o \in Objs :
                objs'[o].status = RUNNING => pc'[c] = "run" /\ local'[c].model = o
          /\ (pc[c] = "run" /\ pc'[c] = "returned")
                => objs'[local[c].model].status \in {READY, ERROR}
          /\ pc'[c] \in {"idle", "returned"}
                => \A o \in Objs :
                      objs'[o] # NoObj => objs'[o].status \in {INITIALIZING, READY, ERROR}]_vars

C28_Witness ==
    \E c \in SeqCallers :
        /\ Returned(c, "run_model")
        /\ local[c].invoked
        /\ local[c].outcome = "return"
        /\ objs[local[c].model].status = READY
        /\ \E o \in Objs : objs[o].status = ERROR

\* C29: initialize_model is not guarded by the current status.  Called on a
\* registered model in any status it enters the model's initialize, and the
\* status it leaves is READY or ERROR by the outcome alone; a model leaves
\* ERROR only in the return of an initialize_model call on it, and run_model
\* on a model in ERROR returns None without invoking run.
C29_InitializeUnguarded ==
    [][\A c \in SeqCallers :
          /\ (Calls(c, "initialize_model") /\ DictHas(models, call'[c].model_id))
                => /\ pc'[c] = "initialize"
                   /\ local'[c].invoked
                   /\ local'[c].model = DictGet(models, call'[c].model_id)
          /\ (pc[c] = "initialize" /\ pc'[c] = "returned")
                => /\ local'[c].outcome = "true" => objs'[local[c].model].status = READY
                   /\ local'[c].outcome # "true" => objs'[local[c].model].status = ERROR
          /\ \A o \in Objs :
                (objs[o].status = ERROR /\ objs'[o] # NoObj /\ objs'[o].status # ERROR)
                   => pc[c] = "initialize" /\ local[c].model = o /\ pc'[c] = "returned"
          /\ (Calls(c, "run_model") /\ DictHas(models, call'[c].model_id)
                 /\ objs[DictGet(models, call'[c].model_id)].status = ERROR)
                => pc'[c] = "returned" /\ ret'[c] = RetNone /\ objs' = objs]_vars

C29_Witness ==
    \E c \in SeqCallers :
        /\ Returned(c, "initialize_model")
        /\ local[c].seen = RUNNING
        /\ local[c].outcome = "true"
        /\ objs[local[c].model].status = READY
        /\ \E o \in Objs : objs[o].status = STOPPED

\* C30: a model's last-run timestamp changes only on a successful
\* run_model.  Whenever the timestamp of an existing instance changes, the
\* step is the return of a run_model call on it whose run returned a result;
\* rejected run_model calls, runs that raise, register_model,
\* initialize_model, unregister_model, get_model and list_models leave it
\* as it was.
C30_StampOnlyOnSuccess ==
    [][\A o \in Objs :
          (objs[o] # NoObj /\ objs'[o] # NoObj /\ objs'[o].last_run_time # objs[o].last_run_time)
             => \E c \in Callers :
                   /\ call[c].op = "run_model"
                   /\ pc[c] = "run"
                   /\ pc'[c] = "returned"
                   /\ local[c].model = o
                   /\ local'[c].outcome = "return"
                   /\ ret'[c].tag = "context"
                   /\ objs'[o].last_run_time = now]_vars

C30_Witness ==
    \E c \in Callers :
        /\ Returned(c, "run_model")
        /\ local[c].invoked
        /\ local[c].outcome = "raise"
        /\ objs[local[c].model].status = ERROR
        /\ objs[local[c].model].last_run_time = 1
        /\ now = 2

\* C31: after any sequence of register_model, unregister_model,
\* initialize_model and run_model calls, every key of the manager's mapping
\* maps to a model whose model_id is that key, no key occurs twice, and no
\* model object is held under two keys.
C31_KeysMatchIds ==
    /\ \A i \in 1..Len(models) : models[i].key = model_id(models[i].value)
    /\ \A i, j \in 1..Len(models) :
          (models[i].key = models[j].key \/ models[i].value = models[j].value) => i = j

C31_Witness ==
    \E c \in SeqCallers :
        /\ Returned(c, "unregister_model")
        /\ ret[c].bool
        /\ Len(models) = 1
        /\ models[1].key = "m2"
        /\ objs[models[1].value].last_run_time > 0

\* C32: provided the model's run terminates, every run_model call that has
\* put a model into RUNNING and entered run eventually returns, leaving the
\* model READY or ERROR as it does.
C32_RunEventuallyReturns ==
    \A c \in Callers :
        (pc[c] = "run")
            ~> (/\ Returned(c, "run_model")
                /\ local[c].outcome \in {"return", "raise"}
                /\ objs[local[c].model].status \in {READY, ERROR})

C32_Witness ==
    \A c \in Callers :
        /\ Returned(c, "run_model")
        /\ local[c].invoked
        /\ objs[local[c].model].status \in {READY, ERROR}

\* C33: two overlapping run_model executions on one model, one raising and
\* one succeeding.  When the second of them finishes, the status is set by
\* its outcome alone: READY if it succeeded, whatever the failure of the
\* first had left, and ERROR if it raised, while the first caller keeps the
\* result it was given.
C33_CompletionOrder ==
    [][\A c, d \in Callers :
          (/\ c # d
           /\ pc[c] = "run" /\ pc'[c] = "returned"
           /\ Returned(d, "run_model") /\ local[d].overlap
           /\ local[d].model = local[c].model
           /\ local[d].outcome # local'[c].outcome)
             => /\ ret'[d] = ret[d]
                /\ local'[c].outcome = "return"
                     => /\ objs'[local[c].model].status = READY
                        /\ ret[d] = RetNone
                /\ local'[c].outcome = "raise"
                     => /\ objs'[local[c].model].status = ERROR
                        /\ ret[d].tag = "context"]_vars

C33_Witness ==
    \E c, d \in Callers :
        /\ c # d
        /\ Returned(d, "run_model") /\ local[d].overlap /\ local[d].outcome = "return"
        /\ ret[d].tag = "context"
        /\ Returned(c, "run_model") /\ local[c].invoked /\ local[c].outcome = "raise"
        /\ objs[local[c].model].status = ERROR

\* C34: initialize_model completing while another caller is inside
\* model.run on the same model replaces RUNNING by READY (or ERROR) and
\* leaves that run executing; a run_model call made while the status is
\* READY is admitted although the first run has not finished.
C34_InitializeOverwritesRunning ==
    [][\A c, d \in Callers :
          /\ (/\ c # d
               /\ pc[c] = "initialize" /\ pc'[c] = "returned"
               /\ pc[d] = "run" /\ local[d].model = local[c].model
               /\ objs[local[c].model].status = RUNNING)
                 => /\ objs'[local[c].model].status
                          = (IF ret'[c] = RetBool(TRUE) THEN READY ELSE ERROR)
                    /\ pc'[d] = "run"
          /\ LET m == DictGet(models, call'[c].model_id)
             IN  (/\ c # d
                  /\ Calls(c, "run_model")
                  /\ m # None
                  /\ pc[d] = "run" /\ local[d].model = m
                  /\ objs[m].status = READY
                  /\ call'[c].context.context_type \in Supported(m))
                    => /\ pc'[c] = "run_checked"
                       /\ pc'[d] = "run"]_vars

C34_Witness ==
    \E c, d \in Callers :
        /\ c # d
        /\ Returned(c, "initialize_model")
        /\ local[c].seen = RUNNING
        /\ local[c].overlap
        /\ ret[c] = RetBool(TRUE)
        /\ objs[local[c].model].status = READY
        /\ pc[d] = "run"

\* C35: a step of initialize_model, run_model, unregister_model or
\* register_model (accepted or rejected) for id A leaves every model
\* registered under another id B registered, with the same instance, the
\* same status and the same last-run timestamp.
C35_IsolatedPerId ==
    [][\A c \in Callers : \A B \in ModelIds :
          (/\ pc'[c] # "idle"
           /\ call'[c].op \in {"initialize_model", "run_model", "unregister_model",
                                "register_model"}
           /\ call'[c].model_id # B
           /\ DictHas(models, B))
             => /\ DictHas(models', B)
                /\ DictGet(models', B) = DictGet(models, B)
                /\ objs'[DictGet(models, B)].status = objs[DictGet(models, B)].status
                /\ objs'[DictGet(models, B)].last_run_time
                      = objs[DictGet(models, B)].last_run_time]_vars

C35_Witness ==
    \E c \in SeqCallers :
        /\ Returned(c, "run_model")
        /\ call[c].model_id = "m1"
        /\ local[c].outcome = "raise"
        /\ objs[local[c].model].status = ERROR
        /\ DictHas(models, "m2")
        /\ objs[DictGet(models, "m2")].status = READY
        /\ objs[DictGet(models, "m2")].last_run_time > 0

\* C36: in the order ContextRegistry.list returns, registering a context
\* under an id that is present replaces the entry where it stands and moves
\* nothing, registering under an absent id puts the entry last, and so an id
\* that was just deleted and is registered again is listed last.
C36_ListOrder ==
    [][reg'.op = "register"
          => LET id     == reg'.context.context_id
                 before == RegistryList(contexts, None, None)
                 after  == RegistryList(contexts', None, None)
             IN  /\ reg'.warned
                      => /\ Len(after) = Len(before)
                         /\ \A i \in 1..Len(before) :
                               /\ after[i].context_id = before[i].context_id
                               /\ before[i].context_id = id => after[i] = reg'.context
                               /\ before[i].context_id # id => after[i] = before[i]
                 /\ ~reg'.warned => after = Append(before, reg'.context)
                 /\ (reg.op = "delete" /\ reg.deleted /\ reg.context_id = id)
                      => /\ ~reg'.warned
                         /\ after[Len(after)] = reg'.context
                         /\ \A i \in 1..(Len(after) - 1) : after[i].context_id # id]_vars

C36_Witness ==
    /\ reg.op = "register"
    /\ reg.warned
    /\ reg.context.context_id = "a"
    /\ reg.context.data = "d2"
    /\ RegistryList(contexts, None, None)[1] = reg.context
    /\ Len(RegistryList(contexts, None, None)) = 2
    /\ RegistryList(contexts, None, None)[2].context_id = "b"

====
